---- MODULE Spec2Model ----
(***************************************************************************)
(* A model of the Family Inc. simulation (family.py): the chip pool, the   *)
(* players' three turn phases, the strategy predicates and the game loop.  *)
(*                                                                         *)
(* The game is modelled at the scale given by the bounds below: chip       *)
(* values 1..MaxChip instead of 1..10, a supply of LowSupply copies for    *)
(* the values below HighFrom and HighSupply for the others instead of 15   *)
(* and 11, and a winning score of WinScore instead of 100.                 *)
(***************************************************************************)
EXTENDS Integers, FiniteSets, Sequences, TLC

\* ------------------------------------------------------------------ bounds
NumPlayers == 2       \* seats at the table (2..7 in the experiment)
MaxChip == 3          \* chip values are 1..MaxChip        (1..10 in the code)
HighFrom == 3         \* first value with the smaller supply  (6 in the code)
LowSupply == 2        \* copies of each value < HighFrom     (15 in the code)
HighSupply == 1       \* copies of each value >= HighFrom    (11 in the code)
WinScore == 4         \* score that wins the game           (100 in the code)
DiamondBonus == 2     \* points for three diamonds           (50 in the code)
MaxTrials == 2        \* trials of one experiment()     (N, 5000 in main())

\* ------------------------------------------------------- program constants
DiamondsForBonus == 3 \* step1: if self.diamonds == 3
DiamondDraws == 3     \* step2: if self.drawn_chips <= 3

Players == 1..NumPlayers
ChipValues == 1..MaxChip
NoPlayer == 0         \* winner = None

VARIABLES
    strategy,     \* the roster: each player's strategy class and parameters
    pool,         \* ChipPool.chips: value -> copies remaining in the pool
    chips,        \* Player.chips of each player: value -> copies held
    diamonds,     \* Player.diamonds
    score,        \* Player.score
    drawn_chips,  \* Player.drawn_chips
    has_won,      \* Player.has_won
    game_over,    \* game(): game_over
    winner,       \* game(): winner
    turn,         \* game(): the player the for loop is at
    pc,           \* game() and experiment(): the statement the loop is at
    winners,        \* experiment(): wins per strategy name
    participations, \* experiment(): seats per strategy name
    trials          \* experiment(): trials completed

vars == <<strategy, pool, chips, diamonds, score, drawn_chips, has_won,
          game_over, winner, turn, pc, winners, participations, trials>>

\* ----------------------------------------------------------------- helpers
\* sum(f.values()) over the keys in S
RECURSIVE SumOver(_, _)
SumOver(f, S) ==
    IF S = {} THEN 0
    ELSE LET k == CHOOSE x \in S : TRUE
         IN  f[k] + SumOver(f, S \ {k})

\* sum([k * v for k, v in f.items() if k in S])
RECURSIVE ValueOver(_, _)
ValueOver(f, S) ==
    IF S = {} THEN 0
    ELSE LET k == CHOOSE x \in S : TRUE
         IN  k * f[k] + ValueOver(f, S \ {k})

\* copies of value v held by all the players of hands h
RECURSIVE HeldBy(_, _, _)
HeldBy(h, v, S) ==
    IF S = {} THEN 0
    ELSE LET p == CHOOSE x \in S : TRUE
         IN  h[p][v] + HeldBy(h, v, S \ {p})

Held(h, v) == HeldBy(h, v, Players)

\* ---------------------------------------------------------------- ChipPool
\* {i: (15 if i < 6 else 11) for i in range(1, 11)}
FullSupply == [i \in ChipValues |-> IF i < HighFrom THEN LowSupply ELSE HighSupply]

\* faulty variant: the new centre pile forgets the chips the players hold
NewPile_AllBack(h) == FullSupply

\* draw(): the new centre pile, the full supply minus what the players hold
NewPile(h) == [i \in ChipValues |-> FullSupply[i] - Held(h, i)]

\* faulty variant: the pile is renewed one chip too early
PileToDraw_Early(c, h) == IF SumOver(c, ChipValues) <= 1 THEN NewPile(h) ELSE c

\* draw(): the pile the chip is selected from
PileToDraw(c, h) == IF SumOver(c, ChipValues) = 0 THEN NewPile(h) ELSE c

\* faulty variant: the selection ignores the weights
Choices_Unweighted(weights) == ChipValues

\* random.choices(range(1, 11), weights=...): a value of weight zero is never
\* selected; with every weight zero the call raises ValueError ("Total of
\* weights must be greater than zero", Python 3.9 and later)
Choices(weights) == {i \in ChipValues : weights[i] > 0}

\* self.chips[chip] -= 1
TakeChip(c, chip) == [c EXCEPT ![chip] = @ - 1]

\* ------------------------------------------------------------------ Player
\* faulty variant: range(1, 10), the highest chip value is not thrown away
reset_chips_Short(hand) ==
    [chip \in DOMAIN hand \cup ChipValues |-> IF chip = MaxChip THEN hand[chip] ELSE 0]

\* faulty variant: the chips are not thrown away at all
reset_chips_None(hand) == hand

\* reset_chips(): for chip in range(1, 11): self.chips[chip] = 0
reset_chips(hand) == [chip \in DOMAIN hand \cup ChipValues |-> 0]

\* the hand of a player after __init__() and reset()
EmptyHand == [chip \in ChipValues |-> 0]

\* calc_stealable()
calc_stealable(h, self) ==
    LET RECURSIVE Loop(_)
        Loop(S) == IF S = {} THEN 0
                   ELSE LET p == CHOOSE x \in S : TRUE
                        IN  ValueOver(h[p], DOMAIN h[p]) + Loop(S \ {p})
    IN  Loop(Players \ {self})

\* to_be_stolen(): "if k in self.chips" tests the keys of the dict, and
\* reset_chips() keeps every chip value as a key
to_be_stolen(h, self) ==
    LET RECURSIVE Loop(_)
        Loop(S) == IF S = {} THEN 0
                   ELSE LET p == CHOOSE x \in S : TRUE
                        IN  ValueOver(h[p], {k \in DOMAIN h[p] : k \in DOMAIN h[self]})
                            + Loop(S \ {p})
    IN  Loop(Players \ {self})

\* faulty variant: the diamond bonus is subtracted
Advance_Minus(hand, d) ==
    ValueOver(hand, DOMAIN hand) - (IF d = DiamondsForBonus THEN DiamondBonus ELSE 0)

\* faulty variant: the chips are counted, not valued
Advance_Count(hand, d) ==
    (IF d = DiamondsForBonus THEN DiamondBonus ELSE 0) + SumOver(hand, DOMAIN hand)

\* step1(): advance
Advance(hand, d) ==
    (IF d = DiamondsForBonus THEN DiamondBonus ELSE 0) + ValueOver(hand, DOMAIN hand)

\* faulty variant: the diamonds are kept when the bonus is paid
DiamondsAfterStep1_Kept(d) == d

\* step1(): self.diamonds afterwards
DiamondsAfterStep1(d) == IF d = DiamondsForBonus THEN 0 ELSE d

\* faulty variant: the winning score has to be exceeded
Wins_Strict(s) == s > WinScore

\* faulty variant: the player wins one point early
Wins_Early(s) == s >= WinScore - 1

\* step1(): if self.score >= 100
Wins(s) == s >= WinScore

\* faulty variant: a bust earns as many diamonds as chips were drawn
DiamondsAfterBust_Drawn(d, drawn) == IF drawn <= DiamondDraws THEN d + drawn ELSE d

\* faulty variant: the third draw no longer earns a diamond
DiamondsAfterBust_Less(d, drawn) == IF drawn < DiamondDraws THEN d + 1 ELSE d

\* step2(): the diamond of a bust on the drawn-th draw
DiamondsAfterBust(d, drawn) == IF drawn <= DiamondDraws THEN d + 1 ELSE d

\* faulty variant: every chip value is robbed, held or not
robbing_chips_All(hand) == DOMAIN hand

\* step3(): robbing_chips
robbing_chips(hand) == {k \in DOMAIN hand : hand[k] > 0}

\* step3(): the body of "for player in players", for the player at seat i
RobPlayer(h, self, i, rob) ==
    IF i = self THEN h
    ELSE [h EXCEPT ![self] = [k \in DOMAIN h[self] |->
                                 IF k \in rob THEN h[self][k] + h[i][k]
                                 ELSE h[self][k]],
                   ![i] = [k \in DOMAIN h[i] |->
                              IF k \in rob THEN 0 ELSE h[i][k]]]

\* step3(): "for player in players", from seat i on
RECURSIVE RobFrom(_, _, _, _)
RobFrom(h, self, i, rob) ==
    IF i > NumPlayers THEN h
    ELSE RobFrom(RobPlayer(h, self, i, rob), self, i + 1, rob)

\* step3(): every hand after self has robbed the other players
step3(h, self) == RobFrom(h, self, 1, robbing_chips(h[self]))

\* -------------------------------------------------------------- strategies
Strat(kind, n, a, b) == [kind |-> kind, n |-> n, a |-> a, b |-> b]

\* the strategy instances of experiment(), at the scale of the model
Instantiations ==
    { Strat("Threshold", 1, 0, 0),
      Strat("Threshold", 2, 0, 0),
      Strat("Random", 0, 0, 0),
      Strat("Greedy", 0, 2, 2),
      Strat("Conservative", 1, 2, 0) }

\* faulty variant: the Threshold player compares with <=
will_draw_Le(st, h, drawn, self) ==
    CASE st.kind = "Random" -> {TRUE, FALSE}
      [] st.kind = "Threshold" -> {drawn <= st.n}
      [] st.kind = "Conservative" ->
            {IF drawn < st.n THEN TRUE ELSE to_be_stolen(h, self) < st.a}
      [] st.kind = "Greedy" ->
            {IF st.n # 0 /\ drawn < st.n THEN TRUE
             ELSE IF calc_stealable(h, self) > st.a THEN TRUE
             ELSE IF to_be_stolen(h, self) < st.b THEN TRUE
             ELSE FALSE}

\* will_draw(): the answers the strategy of self can give
will_draw(st, h, drawn, self) ==
    CASE st.kind = "Random" -> {TRUE, FALSE}
      [] st.kind = "Threshold" -> {drawn < st.n}
      [] st.kind = "Conservative" ->
            {IF drawn < st.n THEN TRUE ELSE to_be_stolen(h, self) < st.a}
      [] st.kind = "Greedy" ->
            {IF st.n # 0 /\ drawn < st.n THEN TRUE
             ELSE IF calc_stealable(h, self) > st.a THEN TRUE
             ELSE IF to_be_stolen(h, self) < st.b THEN TRUE
             ELSE FALSE}

\* ------------------------------------------------------------------- game
NextPlayer(p) == IF p = NumPlayers THEN 1 ELSE p + 1

Init ==
    /\ strategy \in [Players -> Instantiations]
    /\ pool = FullSupply
    /\ chips = [p \in Players |-> EmptyHand]
    /\ diamonds = [p \in Players |-> 0]
    /\ score = [p \in Players |-> 0]
    /\ drawn_chips = [p \in Players |-> 0]
    /\ has_won = [p \in Players |-> FALSE]
    /\ game_over = FALSE
    /\ winner = NoPlayer
    /\ turn = 1
    /\ pc = "step1"
    /\ winners = [i \in Instantiations |-> 0]
    /\ participations = [i \in Instantiations |-> 0]
    /\ trials = 0

\* player.step1(), and the game loop's test of has_won after it
Step1(p) ==
    /\ pc = "step1" /\ turn = p
    /\ LET s == score[p] + Advance(chips[p], diamonds[p])
       IN  /\ score' = [score EXCEPT ![p] = s]
           /\ diamonds' = [diamonds EXCEPT ![p] = DiamondsAfterStep1(@)]
           /\ chips' = [chips EXCEPT ![p] = reset_chips(@)]
           /\ has_won' = [has_won EXCEPT ![p] = @ \/ Wins(s)]
           /\ IF has_won'[p]
              THEN /\ winner' = p
                   /\ game_over' = TRUE
                   /\ pc' = "returned"
              ELSE /\ pc' = "step2"
                   /\ UNCHANGED <<winner, game_over>>
    /\ UNCHANGED <<winners, participations, trials, strategy, pool, drawn_chips, turn>>

\* step2(): self.drawn_chips = 0
Step2Enter(p) ==
    /\ pc = "step2" /\ turn = p
    /\ drawn_chips' = [drawn_chips EXCEPT ![p] = 0]
    /\ pc' = "will_draw"
    /\ UNCHANGED <<winners, participations, trials, strategy, pool, chips, diamonds, score, has_won, game_over,
                   winner, turn>>

\* step2(): will_draw() answers no and the loop ends
Step2Stop(p) ==
    /\ pc = "will_draw" /\ turn = p
    /\ FALSE \in will_draw(strategy[p], chips, drawn_chips[p], p)
    /\ pc' = "step3"
    /\ UNCHANGED <<winners, participations, trials, strategy, pool, chips, diamonds, score, drawn_chips, has_won,
                   game_over, winner, turn>>

\* faulty variant: a chip is kept whether or not its value is already held
Step2Keep_Dup(p, chip) ==
    /\ pc = "will_draw" /\ turn = p
    /\ TRUE \in will_draw(strategy[p], chips, drawn_chips[p], p)
    /\ chip \in Choices(PileToDraw(pool, chips))
    /\ pool' = TakeChip(PileToDraw(pool, chips), chip)
    /\ drawn_chips' = [drawn_chips EXCEPT ![p] = @ + 1]
    /\ chips' = [chips EXCEPT ![p][chip] = @ + 1]
    /\ UNCHANGED <<winners, participations, trials, strategy, diamonds, score, has_won, game_over, winner, turn, pc>>

\* step2(): will_draw() answers yes and the chip drawn is a new value
Step2Keep(p, chip) ==
    /\ pc = "will_draw" /\ turn = p
    /\ TRUE \in will_draw(strategy[p], chips, drawn_chips[p], p)
    /\ chip \in Choices(PileToDraw(pool, chips))
    /\ chips[p][chip] = 0
    /\ pool' = TakeChip(PileToDraw(pool, chips), chip)
    /\ drawn_chips' = [drawn_chips EXCEPT ![p] = @ + 1]
    /\ chips' = [chips EXCEPT ![p][chip] = @ + 1]
    /\ UNCHANGED <<winners, participations, trials, strategy, diamonds, score, has_won, game_over, winner, turn, pc>>

\* step2(): will_draw() answers yes and the chip drawn is one already held
Step2Bust(p, chip) ==
    /\ pc = "will_draw" /\ turn = p
    /\ TRUE \in will_draw(strategy[p], chips, drawn_chips[p], p)
    /\ chip \in Choices(PileToDraw(pool, chips))
    /\ chips[p][chip] > 0
    /\ pool' = TakeChip(PileToDraw(pool, chips), chip)
    /\ drawn_chips' = [drawn_chips EXCEPT ![p] = @ + 1]
    /\ diamonds' = [diamonds EXCEPT ![p] = DiamondsAfterBust(@, drawn_chips'[p])]
    /\ chips' = [chips EXCEPT ![p] = reset_chips(@)]
    /\ pc' = "step3"
    /\ UNCHANGED <<winners, participations, trials, strategy, score, has_won, game_over, winner, turn>>

\* step2(): will_draw() answers yes and draw() raises: the new centre pile
\* is empty, so random.choices() has no positive weight (ValueError)
Step2Raise(p) ==
    /\ pc = "will_draw" /\ turn = p
    /\ TRUE \in will_draw(strategy[p], chips, drawn_chips[p], p)
    /\ Choices(PileToDraw(pool, chips)) = {}
    /\ pool' = PileToDraw(pool, chips)
    /\ pc' = "raised"
    /\ UNCHANGED <<winners, participations, trials, strategy, chips, diamonds, score, drawn_chips, has_won,
                   game_over, winner, turn>>

\* player.step3(players), and the for loop moving to the next player
Step3(p) ==
    /\ pc = "step3" /\ turn = p
    /\ chips' = step3(chips, p)
    /\ turn' = NextPlayer(p)
    /\ pc' = "step1"
    /\ UNCHANGED <<winners, participations, trials, strategy, pool, diamonds, score, drawn_chips, has_won,
                   game_over, winner>>

Next ==
    \E p \in Players :
        \/ Step1(p)
        \/ Step2Enter(p)
        \/ Step2Stop(p)
        \/ \E chip \in ChipValues : Step2Keep(p, chip)
        \/ \E chip \in ChipValues : Step2Bust(p, chip)
        \/ Step2Raise(p)
        \/ Step3(p)

Spec == Init /\ [][Next]_vars

\* -------------------------------------------------------------- experiment
\* the strategy instances the weights of a trial leave a chance to
ExpInstantiations == {i \in Instantiations : i.kind \in {"Threshold", "Conservative"}}

\* faulty variant: a strategy is counted once however many seats it has
RECURSIVE Participate_Once(_, _, _)
Participate_Once(part, roster, p) ==
    IF p > NumPlayers THEN part
    ELSE Participate_Once([part EXCEPT ![roster[p]] =
                              IF \E q \in 1..(p - 1) : roster[q] = roster[p]
                              THEN @ ELSE @ + 1],
                          roster, p + 1)

\* experiment(): for player in players: participations[player.name] += 1,
\* from seat p on
RECURSIVE Participate(_, _, _)
Participate(part, roster, p) ==
    IF p > NumPlayers THEN part
    ELSE Participate([part EXCEPT ![roster[p]] = @ + 1], roster, p + 1)

\* experiment(): the tallies after game(players) has returned
Tally ==
    /\ pc = "returned"
    /\ winners' = [winners EXCEPT ![strategy[winner]] = @ + 1]
    /\ participations' = Participate(participations, strategy, 1)
    /\ trials' = trials + 1
    /\ pc' = "tallied"
    /\ UNCHANGED <<strategy, pool, chips, diamonds, score, drawn_chips, has_won,
                   game_over, winner, turn>>

\* experiment(): the next trial: a roster is sampled, every player is reset
\* and game(players) starts with a full pool
NewTrial ==
    /\ pc = "tallied" /\ trials < MaxTrials
    /\ strategy' \in [Players -> ExpInstantiations]
    /\ pool' = FullSupply
    /\ chips' = [p \in Players |-> EmptyHand]
    /\ diamonds' = [p \in Players |-> 0]
    /\ score' = [p \in Players |-> 0]
    /\ drawn_chips' = [p \in Players |-> 0]
    /\ has_won' = [p \in Players |-> FALSE]
    /\ game_over' = FALSE
    /\ winner' = NoPlayer
    /\ turn' = 1
    /\ pc' = "step1"
    /\ UNCHANGED <<winners, participations, trials>>

ExpInit == Init /\ strategy \in [Players -> ExpInstantiations]

ExpNext == Next \/ Tally \/ NewTrial

ExpSpec == ExpInit /\ [][ExpNext]_vars

\* The random outcomes are fair: a chip value that can be drawn again and
\* again is drawn, for each player, and so is each answer of will_draw().
Fairness ==
    /\ WF_vars(Next)
    /\ \A p \in Players :
          /\ SF_vars(Step2Stop(p))
          /\ SF_vars(Step2Raise(p)
                     \/ \E chip \in ChipValues : Step2Keep(p, chip) \/ Step2Bust(p, chip))
          /\ \A chip \in ChipValues :
                SF_vars(Step2Keep(p, chip) \/ Step2Bust(p, chip))

FairSpec == Init /\ [][Next]_vars /\ Fairness

TypeOK ==
    /\ strategy \in [Players -> Instantiations]
    /\ pool \in [ChipValues -> Int]
    /\ chips \in [Players -> [ChipValues -> Nat]]
    /\ diamonds \in [Players -> Nat]
    /\ score \in [Players -> Nat]
    /\ drawn_chips \in [Players -> Nat]
    /\ has_won \in [Players -> BOOLEAN]
    /\ game_over \in BOOLEAN
    /\ winner \in Players \cup {NoPlayer}
    /\ turn \in Players
    /\ pc \in {"step1", "step2", "will_draw", "step3", "returned", "raised", "tallied"}
    /\ winners \in [Instantiations -> Nat]
    /\ participations \in [Instantiations -> Nat]
    /\ trials \in 0..MaxTrials

\* ------------------------------------------------------------- properties
\* the step being taken, read from the state it starts in
InStep1 == pc = "step1"
InDraw == pc = "will_draw" /\ drawn_chips'[turn] = drawn_chips[turn] + 1
InStep3 == pc = "step3"

\* the pile a draw() of this state selects from
Pile == IF SumOver(pool, ChipValues) = 0
        THEN [v \in ChipValues |-> FullSupply[v] - Held(chips, v)]
        ELSE pool

\* C1 as stated: for every chip value, the copies in the pool plus the copies
\* held by all players equal the fixed supply, in every reachable state.
C1_Conservation ==
    \A v \in ChipValues : pool[v] + Held(chips, v) = FullSupply[v]

\* C1 amended: for every chip value, the copies in the pool plus the copies
\* held by all players never exceed the fixed supply; the chips banked in
\* Phase 1 or lost in a bust leave the hands without going back to the pool.
C1_NoSurplus ==
    \A v \in ChipValues : pool[v] + Held(chips, v) <= FullSupply[v]

\* C1 witness: chips of a value are missing from the table while a player
\* holds copies of it, after points were banked.
C1_Witness ==
    \E v \in ChipValues :
        /\ pool[v] + Held(chips, v) < FullSupply[v]
        /\ Held(chips, v) > 0
        /\ \E p \in Players : score[p] > 0

\* C2: the game stops at the first Phase 1 that leaves the acting player's
\* score at WinScore or more; that player is the winner; nothing runs after.
C2_WinThreshold ==
    [][ /\ ~game_over
        /\ \A p \in Players : score[p] < WinScore
        /\ InStep1 /\ score'[turn] >= WinScore =>
              /\ game_over' /\ winner' = turn /\ has_won'[turn]
              /\ pc' = "returned"
        /\ InStep1 /\ score'[turn] < WinScore =>
              /\ ~game_over' /\ winner' = NoPlayer /\ pc' = "step2"
        /\ ~InStep1 => ~game_over' /\ winner' = NoPlayer
      ]_vars

\* C2 witness: the game has returned a winner who got past the threshold.
C2_Witness ==
    /\ pc = "returned" /\ game_over /\ winner = 2
    /\ score[winner] > WinScore

\* C3: after Phase 3 the acting player holds every copy of each value it held,
\* the others hold none of those; the other values, the pool and the totals
\* per value are unchanged.
C3_Steal ==
    [][ InStep3 =>
          /\ \A v \in ChipValues :
                /\ chips[turn][v] > 0 =>
                      /\ chips'[turn][v] = Held(chips, v)
                      /\ \A q \in Players \ {turn} : chips'[q][v] = 0
                /\ chips[turn][v] = 0 =>
                      \A q \in Players : chips'[q][v] = chips[q][v]
                /\ Held(chips', v) = Held(chips, v)
          /\ pool' = pool
      ]_vars

\* C3 witness: a player holds two copies of a value, which only a steal gives.
C3_Witness ==
    \E p \in Players : \E v \in ChipValues :
        /\ chips[p][v] >= 2
        /\ \E w \in ChipValues : Held(chips, w) > chips[p][w]

\* C4: the diamond count reaches 3 only at a bust; from then until the
\* player's next Phase 1 the score and the diamonds stay, and that Phase 1
\* adds exactly DiamondBonus and resets the diamonds.
C4_DiamondBonus ==
    [][ \A p \in Players :
          /\ diamonds[p] # 3 /\ diamonds'[p] = 3 =>
                /\ pc = "will_draw" /\ turn = p /\ pc' = "step3"
                /\ diamonds[p] = 2
          /\ diamonds[p] = 3 =>
                IF InStep1 /\ turn = p
                THEN score'[p] = score[p] + DiamondBonus /\ diamonds'[p] = 0
                ELSE score'[p] = score[p] /\ diamonds'[p] = 3
      ]_vars

\* C4 witness: a player with three diamonds and points already banked is
\* about to run Phase 1.
C4_Witness ==
    \E p \in Players :
        /\ diamonds[p] = 3 /\ pc = "step1" /\ turn = p
        /\ score[p] > 0

\* C5: a draw of a value already held empties the hand, ends Phase 2 at once
\* and leaves the score; the Phase 3 that follows moves no chip.
C5_BustClearsHand ==
    [][ /\ (InDraw /\ \E v \in ChipValues :
                         pool'[v] = Pile[v] - 1 /\ chips[turn][v] > 0) =>
              /\ \A v \in ChipValues : chips'[turn][v] = 0
              /\ pc' = "step3"
              /\ score' = score
        /\ (InStep3 /\ \A v \in ChipValues : chips[turn][v] = 0) =>
              chips' = chips /\ pool' = pool
      ]_vars

\* C5 witness: Phase 3 starts after a bust on a later draw, with the other
\* players holding chips.
C5_Witness ==
    /\ pc = "step3" /\ drawn_chips[turn] >= 2
    /\ \A v \in ChipValues : chips[turn][v] = 0
    /\ \E q \in Players \ {turn} : \E v \in ChipValues : chips[q][v] > 0

\* C6: no step lowers any player's score, and a score changes only in that
\* player's own Phase 1.
C6_ScoreMonotone ==
    [][ \A p \in Players :
          /\ score'[p] >= score[p]
          /\ score'[p] # score[p] => InStep1 /\ turn = p
      ]_vars

\* C6 witness: a player with points is being robbed by the player at turn.
C6_Witness ==
    \E p \in Players :
        /\ score[p] > 0 /\ turn # p /\ pc = "step3"
        /\ \E v \in ChipValues : chips[p][v] > 0 /\ chips[turn][v] > 0

\* C7: a draw from an empty pool first sets every count to the full supply
\* minus the copies held (also when the selection then fails); a draw from a
\* pool that is not empty changes only the count of the value drawn, by minus
\* one, and no other step renews a pool that is not empty.
C7_Reshuffle ==
    [][ /\ InDraw =>
              IF SumOver(pool, ChipValues) = 0
              THEN \E chip \in ChipValues :
                      \A v \in ChipValues :
                          pool'[v] = FullSupply[v] - Held(chips, v)
                                     - (IF v = chip THEN 1 ELSE 0)
              ELSE \E chip \in ChipValues :
                      /\ pool'[chip] = pool[chip] - 1
                      /\ \A v \in ChipValues \ {chip} : pool'[v] = pool[v]
        /\ pc' = "raised" =>
              /\ SumOver(pool, ChipValues) = 0
              /\ \A v \in ChipValues : pool'[v] = FullSupply[v] - Held(chips, v)
        /\ ~InDraw => (SumOver(pool, ChipValues) > 0 => pool' = pool)
      ]_vars

\* C7 witness: a player is about to draw from an empty pool while chips are
\* held and others have been discarded.
C7_Witness ==
    /\ pc = "will_draw"
    /\ TRUE \in will_draw(strategy[turn], chips, drawn_chips[turn], turn)
    /\ SumOver(pool, ChipValues) = 0
    /\ \E v \in ChipValues : Held(chips, v) > 0
    /\ \E v \in ChipValues : Held(chips, v) < FullSupply[v]

\* C8: the pool's count of every chip value is never negative (and never
\* above the supply), so no draw takes a value that had no copy left.
C8_PoolNonNegative ==
    \A v \in ChipValues : pool[v] >= 0 /\ pool[v] <= FullSupply[v]

\* C8 witness: a player is about to draw from a pool in which one value is
\* used up and another is not.
C8_Witness ==
    /\ pc = "will_draw"
    /\ TRUE \in will_draw(strategy[turn], chips, drawn_chips[turn], turn)
    /\ \E v \in ChipValues : pool[v] = 0
    /\ \E v \in ChipValues : pool[v] > 0

\* C9 as stated: to_be_stolen of a player is the sum, over the other players
\* and over the chip values the player holds at least one copy of, of value
\* times held count.
C9_ExposedToTheft ==
    \A p \in Players :
        to_be_stolen(chips, p)
            = SumOver([q \in Players |->
                          ValueOver(chips[q], {k \in ChipValues : chips[p][k] > 0})],
                      Players \ {p})

\* C10 as stated: under fair random outcomes the game eventually reaches the
\* won state and returns a winner.
C10_Termination == <>(pc = "returned" /\ game_over /\ winner \in Players)

\* the step is a bust: a draw of a value the player at turn already holds
InBust == InDraw /\ \E v \in ChipValues : pool'[v] = Pile[v] - 1 /\ chips[turn][v] > 0

\* C11: every diamond count is in 0..3, it is at most 2 right after the
\* player's Phase 1, and it rises only by one, at the bust that ends the
\* player's Phase 2.
C11_DiamondRange ==
    [][ /\ \A p \in Players :
              /\ diamonds[p] \in 0..3 /\ diamonds'[p] \in 0..3
              /\ diamonds'[p] > diamonds[p] =>
                    /\ diamonds'[p] = diamonds[p] + 1
                    /\ pc = "will_draw" /\ pc' = "step3" /\ turn = p
        /\ InStep1 => diamonds'[turn] <= 2
      ]_vars

\* C11 witness: a player enters Phase 2 with two diamonds kept through Phase 1
\* while another player has three.
C11_Witness ==
    /\ pc = "step2" /\ diamonds[turn] = 2
    /\ \E q \in Players \ {turn} : diamonds[q] = 3

\* C12 as stated: whenever draw() renews an exhausted pool, some chip value
\* has a positive count once the held chips are subtracted.
C12_DrawNeverFails ==
    (/\ pc = "will_draw"
     /\ TRUE \in will_draw(strategy[turn], chips, drawn_chips[turn], turn)
     /\ SumOver(pool, ChipValues) = 0)
        => \E v \in ChipValues : FullSupply[v] - Held(chips, v) > 0

\* C13: Phase 1 adds to the score the value of the hand plus the bonus iff
\* the diamonds were 3, empties the hand, resets the diamonds iff they were 3,
\* sets has-won iff the new score wins, and changes nothing of anyone else.
C13_Banking ==
    [][ InStep1 =>
          /\ score'[turn] = score[turn]
                + SumOver([v \in ChipValues |-> v * chips[turn][v]], ChipValues)
                + (IF diamonds[turn] = 3 THEN DiamondBonus ELSE 0)
          /\ \A v \in ChipValues : chips'[turn][v] = 0
          /\ diamonds'[turn] = (IF diamonds[turn] = 3 THEN 0 ELSE diamonds[turn])
          /\ has_won'[turn] <=> score'[turn] >= WinScore
          /\ \A q \in Players \ {turn} :
                /\ chips'[q] = chips[q] /\ score'[q] = score[q]
                /\ diamonds'[q] = diamonds[q] /\ has_won'[q] = has_won[q]
          /\ pool' = pool
      ]_vars

\* C13 witness: Phase 1 has left the player short of winning, with more points
\* than the bonus alone gives, while another player holds chips.
C13_Witness ==
    /\ pc = "step2" /\ diamonds[turn] = 0
    /\ score[turn] > DiamondBonus
    /\ \E q \in Players \ {turn} : \E v \in ChipValues : chips[q][v] > 0

\* C14: a bust on the 1st, 2nd or 3rd draw of the turn adds exactly one
\* diamond, a bust on a later draw adds none, and a step of Phase 2 that is
\* not a bust changes no diamond count.
C14_DiamondOnBust ==
    [][ /\ InBust /\ drawn_chips'[turn] <= 3 =>
              diamonds' = [diamonds EXCEPT ![turn] = @ + 1]
        /\ InBust /\ drawn_chips'[turn] >= 4 => diamonds' = diamonds
        /\ (pc \in {"step2", "will_draw"} /\ ~InBust) => diamonds' = diamonds
      ]_vars

\* C14 witness: a turn has ended in a bust on its 4th draw.
C14_Witness ==
    /\ pc = "step3" /\ drawn_chips[turn] = 4
    /\ \A v \in ChipValues : chips[turn][v] = 0

\* C15: a Threshold player never draws more than n chips in a turn; its
\* Phase 2 ends with n draws and n values held once each, or with a bust
\* and an empty hand; with n = 1 it never gains a diamond.
C15_ThresholdCap ==
    \A p \in Players :
        strategy[p].kind = "Threshold" =>
            /\ drawn_chips[p] <= strategy[p].n
            /\ (pc = "step3" /\ turn = p) =>
                  \/ /\ drawn_chips[p] = strategy[p].n
                     /\ \A v \in ChipValues : chips[p][v] <= 1
                     /\ SumOver(chips[p], ChipValues) = strategy[p].n
                  \/ /\ drawn_chips[p] >= 2
                     /\ \A v \in ChipValues : chips[p][v] = 0
            /\ strategy[p].n = 1 => diamonds[p] = 0

\* C15 witness: a Threshold player with n = 2 ends Phase 2 with a bust.
C15_Witness ==
    /\ pc = "step3" /\ strategy[turn].kind = "Threshold"
    /\ drawn_chips[turn] = 2
    /\ \A v \in ChipValues : chips[turn][v] = 0

\* C16 as stated: a Conservative player never draws more than n chips in
\* one turn.
C16_ConservativeCap ==
    \A p \in Players :
        strategy[p].kind = "Conservative" => drawn_chips[p] <= strategy[p].n

\* C18: a player starts Phase 2 with an empty hand, and whenever will_draw()
\* is consulted the player holds at most one copy of each value and as many
\* chips as it has drawn this turn.
C18_EmptyHandAtDraw ==
    /\ pc = "step2" => \A v \in ChipValues : chips[turn][v] = 0
    /\ pc = "will_draw" =>
          /\ \A v \in ChipValues : chips[turn][v] <= 1
          /\ SumOver(chips[turn], ChipValues) = drawn_chips[turn]

\* C18 witness: will_draw() is consulted with every chip value in hand while
\* another player holds chips too.
C18_Witness ==
    /\ pc = "will_draw" /\ drawn_chips[turn] = MaxChip
    /\ \E q \in Players \ {turn} : \E v \in ChipValues : chips[q][v] > 0

\* C19: the drawn-count of a turn never exceeds the number of chip values
\* plus one, whatever the strategy answers.
C19_BoundedDraws ==
    \A p \in Players : drawn_chips[p] <= MaxChip + 1

\* C19 witness: a turn has made one draw more than there are chip values.
C19_Witness ==
    \E p \in Players : drawn_chips[p] = MaxChip + 1 /\ pc = "step3" /\ turn = p

\* C20: has-won is true exactly of the players whose score wins, at most one
\* player has such a score, and the winner returned is that player.
C20_UniqueWinner ==
    /\ \A p \in Players : has_won[p] <=> score[p] >= WinScore
    /\ \A p, q \in Players :
          score[p] >= WinScore /\ score[q] >= WinScore => p = q
    /\ pc = "returned" =>
          /\ winner \in Players /\ score[winner] >= WinScore
          /\ \A q \in Players \ {winner} : score[q] < WinScore
    /\ pc # "returned" => winner = NoPlayer

\* C20 witness: the game has returned the first player as winner while the
\* other player has points and chips in hand.
C20_Witness ==
    /\ pc = "returned" /\ winner = 1
    /\ \E q \in Players \ {winner} :
          score[q] > 0 /\ \E v \in ChipValues : chips[q][v] > 0

\* the wins and the seats tallied so far, over all strategy names
TotalWins == SumOver(winners, Instantiations)
TotalSeats == SumOver(participations, Instantiations)

\* C17: a completed trial records one win, under the winner's strategy name,
\* and one participation per seat of the roster; so wins never exceed
\* participations, the wins add up to the number of trials and the
\* participations to trials times table size.
C17_Tallies ==
    [][ /\ (pc = "returned" /\ pc' = "tallied") =>
              /\ trials' = trials + 1
              /\ \A i \in Instantiations :
                    /\ winners'[i] = winners[i]
                          + (IF strategy[winner] = i THEN 1 ELSE 0)
                    /\ participations'[i] = participations[i]
                          + Cardinality({p \in Players : strategy[p] = i})
        /\ pc' # "tallied" =>
              /\ winners' = winners /\ participations' = participations
              /\ trials' = trials
        /\ \A i \in Instantiations : winners'[i] <= participations'[i]
        /\ SumOver(winners', Instantiations) = trials'
        /\ SumOver(participations', Instantiations) = trials' * NumPlayers
      ]_vars

\* C17 witness: two trials are complete and a strategy that held every seat
\* of one of them has more participations than wins.
C17_Witness ==
    /\ pc = "tallied" /\ trials >= 2
    /\ TotalWins = trials /\ TotalSeats = trials * NumPlayers
    /\ \E i \in Instantiations :
          participations[i] > NumPlayers /\ winners[i] < participations[i]
====
